---- MODULE Spec2Model ----
(***************************************************************************)
(* Tennis racket virtual prototyping: the physics proxies of physics.py    *)
(* and the sampling / evaluation / scoring / ranking pipeline of           *)
(* simulation.py.                                                          *)
(*                                                                         *)
(* Numbers.  The program works on IEEE doubles; the model works on fixed   *)
(* point integers.  Unless a unit is given, a real x is held as the        *)
(* integer round(1000*x) ("milli").  Per column:                           *)
(*   m_racket     grams              (0.285 kg  -> 285)                    *)
(*   k_string     units of 100 N/m   (2200 N/m  -> 22)                     *)
(*   damping      milli              (0.01      -> 10)                     *)
(*   x_norm       centi              (0.15      -> 15)                     *)
(*   e, vib_score, shock_proxy, sweet_score     milli                      *)
(*   m_eff        milligrams  (ratio in milli times m_racket in grams)     *)
(*   v_exit       mm/s               (30.0 m/s  -> 30000)                  *)
(* Powers and sines are tabulated from the library functions on these      *)
(* grids.                                                                  *)
(***************************************************************************)
EXTENDS Integers, Sequences, FiniteSets, TLC

VARIABLES frames, prov, last, np_random_state, module_DEFAULTS,
          module_DESIGN_BOUNDS

vars ==
  <<frames, prov, last, np_random_state, module_DEFAULTS, module_DESIGN_BOUNDS>>

-----------------------------------------------------------------------------
(* Fixed point helpers (float *, / on milli values). *)

FMul(a, b) == (a * b) \div 1000

FDiv(a, b) == (a * 1000) \div b

Min2(a, b) == IF a <= b THEN a ELSE b

Max2(a, b) == IF a >= b THEN a ELSE b

-----------------------------------------------------------------------------
(* physics.py *)

\* the upper limit forgotten: np.maximum(a, lo)
clamp_floor_only(a, lo, hi) == Max2(a, lo)

\* np.minimum(np.maximum(a, lo), hi)
clamp(a, lo, hi) == Min2(Max2(a, lo), hi)

r_min == 120

r_max == 350

\* x ** 0.8 for x = 0.00, 0.01, ..., 1.00 (milli)
Pow08Table ==
  <<0, 25, 44, 60, 76, 91, 105, 119, 133, 146, 158, 171,
    183, 196, 207, 219, 231, 242, 254, 265, 276, 287, 298, 309,
    319, 330, 340, 351, 361, 371, 382, 392, 402, 412, 422, 432,
    442, 451, 461, 471, 480, 490, 500, 509, 519, 528, 537, 547,
    556, 565, 574, 584, 593, 602, 611, 620, 629, 638, 647, 656,
    665, 673, 682, 691, 700, 708, 717, 726, 735, 743, 752, 760,
    769, 777, 786, 794, 803, 811, 820, 828, 837, 845, 853, 862,
    870, 878, 886, 895, 903, 911, 919, 927, 935, 944, 952, 960,
    968, 976, 984, 992, 1000>>

Pow08(x_norm) == Pow08Table[x_norm + 1]

\* the interpolation run from the tip: r_max at x_norm = 0
effective_mass_from_tip(m_racket, x_norm) ==
  LET ratio == r_max - FMul(r_max - r_min, Pow08(x_norm))
  IN  ratio * m_racket

effective_mass_at_impact(m_racket, x_norm) ==
  LET ratio == r_min + FMul(r_max - r_min, Pow08(x_norm))
  IN  ratio * m_racket

\* the rebound without the incoming term: e in place of 1 + e
exit_speed_restitution_only(v_in, m_eff, m_ball, e) ==
  FMul(FMul(e, FDiv(m_eff, m_eff + m_ball)), v_in)

exit_speed(v_in, m_eff, m_ball, e) ==
  FMul(FMul(1000 + e, FDiv(m_eff, m_eff + m_ball)), v_in)

\* e_base + 0.08 * (k_string - 3000) / 1200, clamped to [0.35, 0.55]
cor_from_string_stiffness(k_string, e_base) ==
  LET e == e_base + (80 * (100 * k_string - 3000)) \div 1200
  IN  clamp(e, 350, 550)

\* sin(pi * x) for x = 0.00 .. 1.00 (milli)
Sin1Table ==
  <<0, 31, 63, 94, 125, 156, 187, 218, 249, 279, 309, 339,
    368, 397, 426, 454, 482, 509, 536, 562, 588, 613, 637, 661,
    685, 707, 729, 750, 771, 790, 809, 827, 844, 861, 876, 891,
    905, 918, 930, 941, 951, 960, 969, 976, 982, 988, 992, 996,
    998, 1000, 1000, 1000, 998, 996, 992, 988, 982, 976, 969, 960,
    951, 941, 930, 918, 905, 891, 876, 861, 844, 827, 809, 790,
    771, 750, 729, 707, 685, 661, 637, 613, 588, 562, 536, 509,
    482, 454, 426, 397, 368, 339, 309, 279, 249, 218, 187, 156,
    125, 94, 63, 31, 0>>

\* sin(2 * pi * x) for x = 0.00 .. 1.00 (milli)
Sin2Table ==
  <<0, 63, 125, 187, 249, 309, 368, 426, 482, 536, 588, 637,
    685, 729, 771, 809, 844, 876, 905, 930, 951, 969, 982, 992,
    998, 1000, 998, 992, 982, 969, 951, 930, 905, 876, 844, 809,
    771, 729, 685, 637, 588, 536, 482, 426, 368, 309, 249, 187,
    125, 63, 0, -63, -125, -187, -249, -309, -368, -426, -482, -536,
    -588, -637, -685, -729, -771, -809, -844, -876, -905, -930, -951, -969,
    -982, -992, -998, -1000, -998, -992, -982, -969, -951, -930, -905, -876,
    -844, -809, -771, -729, -685, -637, -588, -536, -482, -426, -368, -309,
    -249, -187, -125, -63, 0>>

mode_shape_1(x_norm) == Sin1Table[x_norm + 1]

mode_shape_2(x_norm) == Sin2Table[x_norm + 1]

\* (k / 3000) ** 0.35 for k = 100, 200, ..., 10000 N/m (milli)
Pow035Table ==
  <<304, 388, 447, 494, 534, 569, 601, 630, 656, 681, 704, 726,
    746, 766, 785, 803, 820, 836, 852, 868, 883, 897, 911, 925,
    938, 951, 964, 976, 988, 1000, 1012, 1023, 1034, 1045, 1055, 1066,
    1076, 1086, 1096, 1106, 1116, 1125, 1134, 1143, 1152, 1161, 1170, 1179,
    1187, 1196, 1204, 1212, 1220, 1228, 1236, 1244, 1252, 1260, 1267, 1275,
    1282, 1289, 1297, 1304, 1311, 1318, 1325, 1332, 1338, 1345, 1352, 1359,
    1365, 1372, 1378, 1384, 1391, 1397, 1403, 1410, 1416, 1422, 1428, 1434,
    1440, 1446, 1452, 1457, 1463, 1469, 1475, 1480, 1486, 1491, 1497, 1502,
    1508, 1513, 1519, 1524>>

\* (0.32 / m) ** 0.25 for m = 0.200, 0.201, ..., 0.400 kg (milli)
Pow025Table ==
  <<1125, 1123, 1122, 1121, 1119, 1118, 1116, 1115, 1114, 1112, 1111, 1110, 1108, 1107, 1106,
    1105, 1103, 1102, 1101, 1099, 1098, 1097, 1096, 1094, 1093, 1092, 1091, 1090, 1088, 1087,
    1086, 1085, 1084, 1083, 1081, 1080, 1079, 1078, 1077, 1076, 1075, 1073, 1072, 1071, 1070,
    1069, 1068, 1067, 1066, 1065, 1064, 1063, 1062, 1060, 1059, 1058, 1057, 1056, 1055, 1054,
    1053, 1052, 1051, 1050, 1049, 1048, 1047, 1046, 1045, 1044, 1043, 1042, 1041, 1041, 1040,
    1039, 1038, 1037, 1036, 1035, 1034, 1033, 1032, 1031, 1030, 1029, 1028, 1028, 1027, 1026,
    1025, 1024, 1023, 1022, 1021, 1021, 1020, 1019, 1018, 1017, 1016, 1015, 1015, 1014, 1013,
    1012, 1011, 1010, 1010, 1009, 1008, 1007, 1006, 1006, 1005, 1004, 1003, 1002, 1002, 1001,
    1000, 999, 998, 998, 997, 996, 995, 995, 994, 993, 992, 992, 991, 990, 989,
    989, 988, 987, 986, 986, 985, 984, 984, 983, 982, 981, 981, 980, 979, 979,
    978, 977, 976, 976, 975, 974, 974, 973, 972, 972, 971, 970, 970, 969, 968,
    968, 967, 966, 966, 965, 964, 964, 963, 962, 962, 961, 960, 960, 959, 959,
    958, 957, 957, 956, 955, 955, 954, 954, 953, 952, 952, 951, 951, 950, 949,
    949, 948, 948, 947, 946, 946>>

injected(x_norm) ==
  LET phi1 == mode_shape_1(x_norm)
      phi2 == mode_shape_2(x_norm)
  IN  FMul(phi1, phi1) + FMul(600, FMul(phi2, phi2))

stiffness_factor(k_string) == Pow035Table[k_string]

\* the attenuation taken as a gain: 1.0 + 8.0 * damping
damp_factor_gain(damping) == 1000 + 8 * damping

damp_factor(damping) == FDiv(1000, 1000 + 8 * damping)

mass_factor(m_racket) == Pow025Table[m_racket - 199]

vibration_score(x_norm, k_string, damping, m_racket) ==
  FMul(FMul(FMul(injected(x_norm), stiffness_factor(k_string)),
            damp_factor(damping)),
       mass_factor(m_racket))

\* the noise added to the vibration score before it is scaled
shock_proxy_noise_scaled(vib, x_norm, k_string, x_handle_norm, noise) ==
  LET dist_factor == clamp(10 * x_norm - x_handle_norm, 0, 1000)
      stiff_boost == 1000 + (120 * (100 * k_string - 3000)) \div 1200
  IN  FMul(FMul(vib + noise, 550 + FMul(450, dist_factor)), stiff_boost)

noise_std == 40

\* the deterministic part of shock_proxy plus the noise term drawn for the row
shock_proxy(vib, x_norm, k_string, x_handle_norm, noise) ==
  LET dist_factor == clamp(10 * x_norm - x_handle_norm, 0, 1000)
      stiff_boost == 1000 + (120 * (100 * k_string - 3000)) \div 1200
  IN  FMul(FMul(vib, 550 + FMul(450, dist_factor)), stiff_boost) + noise

-----------------------------------------------------------------------------
(* Python dicts keep insertion order: a dict is a sequence of <<key, value>> *)
(* pairs with distinct keys.                                                 *)

DictKeys(d) == [i \in 1..Len(d) |-> d[i][1]]

DictHas(d, k) == \E i \in 1..Len(d) : d[i][1] = k

DictGet(d, k) == d[CHOOSE i \in 1..Len(d) : d[i][1] = k][2]

\* d[k] = v : an existing key keeps its position, a new key goes last
DictSet(d, k, v) ==
  IF DictHas(d, k)
    THEN [i \in 1..Len(d) |-> IF d[i][1] = k THEN <<k, v>> ELSE d[i]]
    ELSE Append(d, <<k, v>>)

RECURSIVE DictMerge(_, _)
\* {**a, **b}
DictMerge(a, b) ==
  IF b = <<>> THEN a
  ELSE DictMerge(DictSet(a, Head(b)[1], Head(b)[2]), Tail(b))

-----------------------------------------------------------------------------
(* numpy generators.  A generator is a position in a deterministic stream;  *)
(* RngMod bounds the number of distinct positions.                          *)

RngMod == 3

\* np.random.default_rng(seed): the stream is fixed by the seed alone
default_rng(seed) == seed % RngMod

\* the generator after n draws
rng_skip(s, n) == (s + n) % RngMod

\* Generator.uniform(lo, hi): lo + (hi - lo) * u with u in [0, 1)
rng_uniform(s, lo, hi) == lo + ((hi - lo) * s) \div RngMod

\* normal(0, std): a draw symmetric about 0, within two standard deviations
rng_normal(s, std) == ((2 * s + 1 - RngMod) * 2 * std) \div (2 * RngMod)

-----------------------------------------------------------------------------
(* pandas DataFrame: a row index and an ordered dict of equal-length columns *)

RangeIndex(n) == [i \in 1..n |-> i - 1]

NRows(df) == Len(df.index)

Columns(df) == DictKeys(df.cols)

HasCol(df, name) == DictHas(df.cols, name)

\* df[name]
Col(df, name) == DictGet(df.cols, name)

\* an assignment that inserts the column in front (df.insert(0, ...))
SetCol_inserts_first(df, name, values) ==
  [df EXCEPT !.cols =
     <<<<name, values>>>> \o SelectSeq(@, LAMBDA p : p[1] # name)]

\* df[name] = values
SetCol(df, name, values) == [df EXCEPT !.cols = DictSet(@, name, values)]

\* the first key of keys that df[...] would raise KeyError on, "" if none
FirstMissing(df, keys) ==
  IF \A i \in 1..Len(keys) : HasCol(df, keys[i]) THEN ""
  ELSE keys[CHOOSE i \in 1..Len(keys) :
              /\ ~HasCol(df, keys[i])
              /\ \A j \in 1..(i - 1) : HasCol(df, keys[j])]

NoFrame == [index |-> <<>>, cols |-> <<>>]

\* a call that returns value; arg is the caller's argument object after the call
Return(value, arg, g) ==
  [raised |-> "", key |-> "", value |-> value, arg |-> arg, np_random_state |-> g]

\* a call that raises: nothing is returned
Raise(exc, key, arg, g) ==
  [raised |-> exc, key |-> key, value |-> NoFrame, arg |-> arg, np_random_state |-> g]

-----------------------------------------------------------------------------
(* simulation.py *)

\* the module-level dicts as the import of simulation.py builds them; the
\* process holds them in module_DEFAULTS and module_DESIGN_BOUNDS
DEFAULTS ==
  << <<"m_ball", 58000>>, <<"v_in", 30000>>, <<"e_base", 450>>,
     <<"L", 685>>, <<"x_handle", 100>> >>

DESIGN_BOUNDS ==
  << <<"m_racket", <<285, 340>> >>, <<"k_string", <<22, 42>> >>,
     <<"damping", <<10, 80>> >>, <<"x_norm", <<15, 95>> >> >>

\* the sampler drawing from the process-wide generator
sample_rng_global(seed, g) == g

\* rng = np.random.default_rng(seed): a generator of the call's own; the
\* process-wide generator g is not consulted
sample_rng(seed, g) == default_rng(seed)

\* the merge written back into the mapping: d.update(override)
merge_updates_mapping(mapping, merged) == merged

\* {**d, **override} builds a new dict: the mapping d after the merge is d
merge_into_new_dict(mapping, merged) == mapping

\* the merge the wrong way round: {**bounds, **DESIGN_BOUNDS}
effective_bounds_defaults_win(bounds) == DictMerge(bounds, module_DESIGN_BOUNDS)

\* {**DESIGN_BOUNDS, **(bounds or {})}
effective_bounds(bounds) == DictMerge(module_DESIGN_BOUNDS, bounds)

\* rng.uniform(lo, hi, size=n), the generator being at position s
uniform_column(s, lo, hi, n) ==
  [i \in 1..n |-> rng_uniform(rng_skip(s, i - 1), lo, hi)]

sample_design_space(n, bounds, seed, g) ==
  LET rng  == sample_rng(seed, g)
      b    == effective_bounds(bounds)
      data == [j \in 1..Len(b) |->
                <<b[j][1],
                  uniform_column(rng_skip(rng, (j - 1) * n),
                                 b[j][2][1], b[j][2][2], n)>>]
  IN  \* pd.DataFrame(data): the index runs over the length of the columns
      Return([index |-> RangeIndex(Len(data[1][2])), cols |-> data], NoFrame, g)

\* no copy: the column writes land in the caller's table
write_in_place(designs, written) == written

\* df = designs.copy(): the caller's table after a call whose column writes
\* produced `written`; the writes went to the copy
copy_then_write(designs, written) == designs

\* noise = np.random.normal(0, noise_std, size=vib.shape), rng being None:
\* n draws from the process-wide generator, which is at position g
shock_noise(g, n) == [i \in 1..n |-> rng_normal(rng_skip(g, i - 1), noise_std)]

\* the column writes of run_simulation on the copy df
evaluate(df, c, noise) ==
  LET n   == NRows(df)
      df1 == SetCol(df, "e",
               [i \in 1..n |->
                 cor_from_string_stiffness(Col(df, "k_string")[i],
                                           DictGet(c, "e_base"))])
      df2 == SetCol(df1, "m_eff",
               [i \in 1..n |->
                 effective_mass_at_impact(Col(df1, "m_racket")[i],
                                          Col(df1, "x_norm")[i])])
      df3 == SetCol(df2, "v_exit",
               [i \in 1..n |->
                 exit_speed(DictGet(c, "v_in"), Col(df2, "m_eff")[i],
                            DictGet(c, "m_ball"), Col(df2, "e")[i])])
      df4 == SetCol(df3, "vib_score",
               [i \in 1..n |->
                 vibration_score(Col(df3, "x_norm")[i], Col(df3, "k_string")[i],
                                 Col(df3, "damping")[i], Col(df3, "m_racket")[i])])
      x_handle_norm == FDiv(DictGet(c, "x_handle"), DictGet(c, "L"))
  IN  SetCol(df4, "shock_proxy",
        [i \in 1..n |->
          shock_proxy(Col(df4, "vib_score")[i], Col(df4, "x_norm")[i],
                      Col(df4, "k_string")[i], x_handle_norm, noise[i])])

run_simulation(designs, constants, g) ==
  LET c       == DictMerge(module_DEFAULTS, constants)
      missing == FirstMissing(designs,
                   <<"k_string", "m_racket", "x_norm", "damping">>)
      n       == NRows(designs)
      df      == evaluate(designs, c, shock_noise(g, n))
  IN  IF missing # ""
        THEN Raise("KeyError", missing, designs, g)
        ELSE Return(df, copy_then_write(designs, df), rng_skip(g, n))

eps == 1

\* eps = 1e-9 lies below the fixed-point grid of the columns; the model keeps
\* it positive and small by measuring denominators on a grid EpsInv times
\* finer than the column's, on which eps is one step
EpsInv == 100

\* what IEEE division yields on a zero denominator (0/0 is NaN, x/0 is
\* infinite): a value outside the fixed-point range
NonFinite == 0 - 1000000000

\* a / b on the eps grid, the quotient in milli
float_div(a, b) == IF b = 0 THEN NonFinite ELSE (a * 1000) \div b

\* the normalisation without the eps guard
min_max_normalise_no_eps(x) ==
  LET lo == CHOOSE a \in {x[i] : i \in 1..Len(x)} :
              \A i \in 1..Len(x) : a <= x[i]
      hi == CHOOSE a \in {x[i] : i \in 1..Len(x)} :
              \A i \in 1..Len(x) : a >= x[i]
  IN  [i \in 1..Len(x) |->
        float_div((x[i] - lo) * EpsInv, (hi - lo) * EpsInv)]

\* the normalisation onto [-1, 1]:
\* (2 * (x - x.min()) - (x.max() - x.min())) / (x.max() - x.min() + eps)
min_max_normalise_symmetric(x) ==
  LET lo == CHOOSE a \in {x[i] : i \in 1..Len(x)} :
              \A i \in 1..Len(x) : a <= x[i]
      hi == CHOOSE a \in {x[i] : i \in 1..Len(x)} :
              \A i \in 1..Len(x) : a >= x[i]
  IN  [i \in 1..Len(x) |->
        float_div((2 * (x[i] - lo) - (hi - lo)) * EpsInv,
                  (hi - lo) * EpsInv + eps)]

\* (x - x.min()) / (x.max() - x.min() + eps), elementwise
min_max_normalise(x) ==
  LET lo == CHOOSE a \in {x[i] : i \in 1..Len(x)} :
              \A i \in 1..Len(x) : a <= x[i]
      hi == CHOOSE a \in {x[i] : i \in 1..Len(x)} :
              \A i \in 1..Len(x) : a >= x[i]
  IN  [i \in 1..Len(x) |->
        float_div((x[i] - lo) * EpsInv, (hi - lo) * EpsInv + eps)]

\* the two weights taken for each other
weighted_difference_weights_swapped(w_speed, v_norm, w_shock, s_norm) ==
  IF v_norm = NonFinite \/ s_norm = NonFinite
    THEN NonFinite
    ELSE FMul(w_shock, v_norm) - FMul(w_speed, s_norm)

\* w_speed * v_norm - w_shock * s_norm; a non-finite operand gives a
\* non-finite result
weighted_difference(w_speed, v_norm, w_shock, s_norm) ==
  IF v_norm = NonFinite \/ s_norm = NonFinite
    THEN NonFinite
    ELSE FMul(w_speed, v_norm) - FMul(w_shock, s_norm)

\* the score column written under another name
score_misnamed(df, w_speed, w_shock) ==
  LET v_norm == min_max_normalise(Col(df, "v_exit"))
      s_norm == min_max_normalise(Col(df, "shock_proxy"))
  IN  SetCol(df, "score",
        [i \in 1..NRows(df) |->
          weighted_difference(w_speed, v_norm[i], w_shock, s_norm[i])])

\* the score with each row normalised over its own partition of the batch:
\* the first row alone, and the rest
score_per_partition(df, w_speed, w_shock) ==
  LET part(x, i) == IF i = 1 THEN <<x[1]>> ELSE Tail(x)
      pos(i)     == IF i = 1 THEN 1 ELSE i - 1
      v          == Col(df, "v_exit")
      s          == Col(df, "shock_proxy")
  IN  SetCol(df, "sweet_score",
        [i \in 1..NRows(df) |->
          weighted_difference(w_speed, min_max_normalise(part(v, i))[pos(i)],
                              w_shock, min_max_normalise(part(s, i))[pos(i)])])

\* the column write of compute_sweet_score on the copy df
score(df, w_speed, w_shock) ==
  LET v_norm == min_max_normalise(Col(df, "v_exit"))
      s_norm == min_max_normalise(Col(df, "shock_proxy"))
  IN  SetCol(df, "sweet_score",
        [i \in 1..NRows(df) |->
          weighted_difference(w_speed, v_norm[i], w_shock, s_norm[i])])

compute_sweet_score(df, w_speed, w_shock, g) ==
  LET missing == FirstMissing(df, <<"v_exit", "shock_proxy">>)
      out     == score(df, w_speed, w_shock)
  IN  IF missing # ""
        THEN Raise("KeyError", missing, df, g)
        ELSE Return(out, copy_then_write(df, out), g)

Perms(r) ==
  {p \in [1..r -> 1..r] : \A i, j \in 1..r : p[i] = p[j] => i = j}

\* the row orders of an ascending sort
sort_orders_ascending(keys) ==
  {p \in Perms(Len(keys)) :
     \A i \in 1..(Len(keys) - 1) : keys[p[i]] <= keys[p[i + 1]]}

\* the row orders sort_values(by, ascending=False) may produce: the default
\* sort kind is quicksort, which does not fix the order of equal keys
sort_orders(keys) ==
  {p \in Perms(Len(keys)) :
     \A i \in 1..(Len(keys) - 1) : keys[p[i]] >= keys[p[i + 1]]}

\* df.iloc[order]: the rows of df in the given order, labels kept
take_rows(df, order) ==
  [index |-> [i \in 1..Len(order) |-> df.index[order[i]]],
   cols  |-> [j \in 1..Len(df.cols) |->
               <<df.cols[j][1],
                 [i \in 1..Len(order) |-> df.cols[j][2][order[i]]]>>]]

\* df.head(n), n >= 0
head(df, n) == take_rows(df, [i \in 1..Min2(n, NRows(df)) |-> i])

\* df[names]
select_columns(df, names) ==
  [df EXCEPT !.cols = [j \in 1..Len(names) |-> <<names[j], Col(df, names[j])>>]]

\* df.reset_index(drop=True)
reset_index(df) == [df EXCEPT !.index = RangeIndex(NRows(df))]

top_cols ==
  <<"sweet_score", "v_exit", "shock_proxy", "m_racket", "k_string",
    "damping", "x_norm">>

\* the listed columns in the table's order: [c for c in df.columns if c in cols]
available_columns_table_order(df) ==
  SelectSeq(Columns(df), LAMBDA c : \E k \in 1..Len(top_cols) : top_cols[k] = c)

\* [c for c in cols if c in df.columns]
available_columns(df) ==
  SelectSeq(top_cols, LAMBDA c : HasCol(df, c))

\* a ranker that falls back to the unsorted head when the table has no score
top_designs_lenient(df, n, order, g) ==
  Return(reset_index(select_columns(
           head(IF HasCol(df, "sweet_score") THEN take_rows(df, order) ELSE df, n),
           available_columns(df))),
         df, g)

\* order: the row order sort_values produced, one of sort_orders
top_designs(df, n, order, g) ==
  LET available == available_columns(df)
  IN  IF ~HasCol(df, "sweet_score")
        THEN Raise("KeyError", "sweet_score", df, g)
        ELSE Return(reset_index(select_columns(head(take_rows(df, order), n),
                                               available)),
                    df, g)

-----------------------------------------------------------------------------
(* The caller.  frames holds every table the caller retains, in creation    *)
(* order; prov[i] is the call that returned frames[i]; last is the call     *)
(* that has just raised (NoCall when the latest call returned);             *)
(* np_random_state is the position of numpy's process-wide generator,       *)
(* which nothing seeds.                                                     *)

MaxFrames == 3

MaxN == 2

\* samples drawn in one run: every sample has a generator of its own, so that
\* samples meet only in pairs
MaxSamples == 2

MaxTop == 3

MaxCallerRows == 2

Seeds == {7, 8}

\* no override; an override that narrows two variables and names a new one
BoundsOverrides ==
  { <<>>,
    << <<"x_norm", <<40, 60>> >>, <<"grip", <<1, 5>> >>,
       <<"m_racket", <<300, 300>> >> >> }

ConstantsOverrides ==
  { <<>>, << <<"v_in", 20000>>, <<"tag", 1>> >> }

\* <<w_speed, w_shock>>: the defaults, and a pair that does not sum to 1
Weights == { <<650, 350>>, <<2000, -500>> }

\* the column layouts of the tables the caller builds by hand
CallerColumns ==
  { <<"v_exit", "shock_proxy">>, <<"v_exit">>, <<"shock_proxy">>,
    <<"sweet_score", "e">>,
    <<"m_racket", "k_string", "damping", "x_norm", "sweet_score">>,
    <<"k_string", "damping", "x_norm">>, <<"m_racket", "damping", "x_norm">>,
    <<"m_racket", "k_string", "x_norm">>, <<"m_racket", "k_string", "damping">> }

ColumnValues(name) ==
  CASE name = "v_exit"      -> {20000, 21000}
    [] name = "shock_proxy" -> {300, 400}
    [] name = "sweet_score" -> {100, 200}
    [] name = "e"           -> {450}
    [] name = "m_racket"    -> {300}
    [] name = "k_string"    -> {30}
    [] name = "damping"     -> {40}
    [] name = "x_norm"      -> {50}

CallerFrames ==
  UNION { UNION { { [index |-> RangeIndex(r),
                     cols  |-> [j \in 1..Len(names) |-> <<names[j], data[j]>>]] :
                    data \in { d \in [1..Len(names) -> UNION {[1..r -> ColumnValues(names[j])] : j \in 1..Len(names)}] :
                               \A j \in 1..Len(names) : d[j] \in [1..r -> ColumnValues(names[j])] } } :
                  r \in {MaxCallerRows} } :
          names \in CallerColumns }

NoCall ==
  [op |-> "", src |-> 0, args |-> <<>>, g0 |-> 0, noise |-> <<>>,
   raised |-> "", key |-> "", out |-> 0]

\* simulation.py has been imported
ModuleLoaded ==
  /\ module_DEFAULTS = DEFAULTS
  /\ module_DESIGN_BOUNDS = DESIGN_BOUNDS

Init ==
  /\ ModuleLoaded
  /\ frames = <<>>
  /\ prov = <<>>
  /\ last = NoCall
  /\ np_random_state \in 0..(RngMod - 1)

\* the caller starts with one table built by hand
InitCaller ==
  /\ ModuleLoaded
  /\ \E df \in CallerFrames :
       /\ frames = <<df>>
       /\ prov = << [NoCall EXCEPT !.op = "caller", !.out = 1] >>
  /\ last = NoCall
  /\ np_random_state \in 0..(RngMod - 1)

\* the caller makes a call when no exception is pending, and retains at most
\* MaxFrames tables
CanCall == last = NoCall /\ Len(frames) < MaxFrames

\* the caller's state after a call on frames[src] (src = 0: no table argument)
Completes(op, src, args, noise, res) ==
  LET kept == IF src = 0 THEN frames ELSE [frames EXCEPT ![src] = res.arg]
      call == [op |-> op, src |-> src, args |-> args, g0 |-> np_random_state,
               noise |-> noise, raised |-> res.raised, key |-> res.key,
               out |-> IF res.raised = "" THEN Len(frames) + 1 ELSE 0]
  IN  /\ frames' = IF res.raised = "" THEN Append(kept, res.value) ELSE kept
      /\ prov' = IF res.raised = "" THEN Append(prov, call) ELSE prov
      /\ last' = IF res.raised = "" THEN NoCall ELSE call
      /\ np_random_state' = res.np_random_state

\* the module-level mappings are left alone by a call that merges nothing
NoMerge == UNCHANGED <<module_DEFAULTS, module_DESIGN_BOUNDS>>

Sample(n, bounds, seed) ==
  /\ Completes("sample_design_space", 0,
               [n |-> n, bounds |-> bounds, seed |-> seed], <<>>,
               sample_design_space(n, bounds, seed, np_random_state))
  /\ module_DESIGN_BOUNDS'
       = merge_into_new_dict(module_DESIGN_BOUNDS, effective_bounds(bounds))
  /\ UNCHANGED module_DEFAULTS

RunSimulation(src, constants) ==
  /\ Completes("run_simulation", src, [constants |-> constants],
               shock_noise(np_random_state, NRows(frames[src])),
               run_simulation(frames[src], constants, np_random_state))
  /\ module_DEFAULTS'
       = merge_into_new_dict(module_DEFAULTS,
                             DictMerge(module_DEFAULTS, constants))
  /\ UNCHANGED module_DESIGN_BOUNDS

ComputeSweetScore(src, w) ==
  /\ Completes("compute_sweet_score", src,
               [w_speed |-> w[1], w_shock |-> w[2]], <<>>,
               compute_sweet_score(frames[src], w[1], w[2], np_random_state))
  /\ NoMerge

TopDesigns(src, n, order) ==
  /\ Completes("top_designs", src, [n |-> n], <<>>,
               top_designs(frames[src], n, order, np_random_state))
  /\ NoMerge

\* the exception has reached the caller, who goes on
CallerCatches ==
  /\ last # NoCall
  /\ last' = NoCall
  /\ UNCHANGED <<frames, prov, np_random_state, module_DEFAULTS,
                 module_DESIGN_BOUNDS>>

Samples ==
  /\ CanCall
  /\ Cardinality({ i \in 1..Len(prov) : prov[i].op = "sample_design_space" })
       < MaxSamples
  /\ \E n \in 0..MaxN, bounds \in BoundsOverrides, seed \in Seeds :
       Sample(n, bounds, seed)

\* the arguments tried on table df beside it: a call on a table that lacks a
\* column of `needed` raises KeyError whatever its other arguments are, and
\* one choice of them stands for all
ArgumentsFor(df, needed, choices, one) ==
  IF FirstMissing(df, needed) = "" THEN choices ELSE {one}

Evaluates ==
  /\ CanCall
  /\ \E src \in 1..Len(frames) :
       \E constants \in ArgumentsFor(frames[src],
                                     <<"k_string", "m_racket", "x_norm", "damping">>,
                                     ConstantsOverrides, <<>>) :
         RunSimulation(src, constants)

Scores ==
  /\ CanCall
  /\ \E src \in 1..Len(frames) :
       \E w \in ArgumentsFor(frames[src], <<"v_exit", "shock_proxy">>,
                             Weights, <<650, 350>>) :
         ComputeSweetScore(src, w)

Ranks ==
  /\ CanCall
  /\ \E src \in 1..Len(frames) :
       \E n \in ArgumentsFor(frames[src], <<"sweet_score">>, 0..MaxTop, MaxTop) :
         \E order \in (IF HasCol(frames[src], "sweet_score")
                         THEN sort_orders(Col(frames[src], "sweet_score"))
                         ELSE {RangeIndex(0)}) :
           TopDesigns(src, n, order)

Next == Samples \/ Evaluates \/ Scores \/ Ranks \/ CallerCatches

NextCaller == Evaluates \/ Scores \/ Ranks \/ CallerCatches

\* the pipeline on sampled designs
Spec == Init /\ [][Next]_vars

\* the evaluator, scorer and ranker on a table the caller built
SpecCaller == InitCaller /\ [][NextCaller]_vars

-----------------------------------------------------------------------------
(* The weight study of tests/test_simulation.py: one evaluated batch is     *)
(* scored twice, and each scored table is ranked, both with the same n.     *)

\* <<w_speed, w_shock>>: speed-heavy and shock-heavy
StudyWeights == { <<900, 100>>, <<100, 900>> }

\* evaluated batches built by hand: m_racket tells the rows apart, the other
\* design columns are absent
HandBatches ==
  { [index |-> RangeIndex(MaxCallerRows),
     cols  |-> << <<"m_racket", [i \in 1..MaxCallerRows |-> 300 + i]>>,
                  <<"e", [i \in 1..MaxCallerRows |-> 450]>>,
                  <<"v_exit", v>>,
                  <<"shock_proxy", s>> >>] :
    v \in [1..MaxCallerRows -> {20000, 21000}],
    s \in [1..MaxCallerRows -> {300, 400}] }

\* results = run_simulation(sample_design_space(n, seed)), the process-wide
\* generator being at position g before the evaluation
EvaluatedBatch(seed, g) ==
  run_simulation(sample_design_space(MaxN, <<>>, seed, g).value, <<>>, g)

\* <<batch, position of the process-wide generator>> at the start of the study
StudyStarts ==
  { <<df, g>> : df \in HandBatches, g \in 0..(RngMod - 1) }
    \cup { <<EvaluatedBatch(seed, g).value, EvaluatedBatch(seed, g).np_random_state>> :
           seed \in Seeds, g \in 0..(RngMod - 1) }

InitStudy ==
  /\ ModuleLoaded
  /\ \E start \in StudyStarts :
       /\ frames = <<start[1]>>
       /\ np_random_state = start[2]
  /\ prov = << [NoCall EXCEPT !.op = "caller", !.out = 1] >>
  /\ last = NoCall

\* df_speed, df_shock: the batch, frames[1], is scored twice
StudyScores ==
  /\ last = NoCall /\ Len(frames) \in {1, 2}
  /\ \E w \in StudyWeights : ComputeSweetScore(1, w)

\* best_speed, best_shock: the scored tables, frames[2] and frames[3], are
\* ranked in turn, the second with the n of the first
StudyRanks ==
  /\ last = NoCall /\ Len(frames) \in {3, 4}
  /\ \E n \in 0..MaxTop :
       /\ Len(frames) = 4 => n = prov[4].args.n
       /\ \E order \in sort_orders(Col(frames[Len(frames) - 1], "sweet_score")) :
            TopDesigns(Len(frames) - 1, n, order)

NextStudy == StudyScores \/ StudyRanks

SpecStudy == InitStudy /\ [][NextStudy]_vars

-----------------------------------------------------------------------------
(* The proxies of physics.py called on their own, as tests/test_physics.py  *)
(* does: each call is made on arguments of its own and returns an array,    *)
(* held as a table of one column.  A mass, a stiffness, a location or a     *)
(* damping passed as an array has two elements.                             *)

\* np.asarray(values) under the name run_simulation gives the quantity
ndarray(name, values) ==
  [index |-> RangeIndex(Len(values)), cols |-> << <<name, values>> >>]

\* v_in in mm/s
SpeedsIn == {1000, 30000}

\* m_eff in milligrams
EffectiveMasses == {10000, 34200, 119000}

\* m_ball in milligrams
BallMasses == {30000, 58000}

\* e in milli, from -1 up
Restitutions == {0 - 1000, 0 - 900, 0, 450, 2000}

\* k_string in 100 N/m: 100 N/m to 10000 N/m
Stiffnesses == {1, 10, 22, 30, 42, 100}

\* e_base in milli
BaseRestitutions == {0, 450, 1000}

\* x_norm in centi: 0.00, 0.01, ..., 1.00
Locations == 0..100

\* x_norm in centi, short of the tip
InnerLocations == {0, 15, 50, 95}

\* damping in milli
Dampings == {0, 10, 40, 80}

\* m_racket in grams
RacketMasses == {285, 340}

Pairs(S) == {<<a, b>> : a \in S, b \in S}

ExitSpeed(v_in, m_eff, m_ball, e) ==
  /\ Completes("exit_speed", 0,
               [v_in |-> v_in, m_eff |-> m_eff, m_ball |-> m_ball, e |-> e], <<>>,
               Return(ndarray("v_exit", <<exit_speed(v_in, m_eff, m_ball, e)>>),
                      NoFrame, np_random_state))
  /\ NoMerge

CorFromStringStiffness(k_string, e_base) ==
  /\ Completes("cor_from_string_stiffness", 0,
               [k_string |-> k_string, e_base |-> e_base], <<>>,
               Return(ndarray("e", [i \in 1..Len(k_string) |->
                                     cor_from_string_stiffness(k_string[i], e_base)]),
                      NoFrame, np_random_state))
  /\ NoMerge

VibrationScore(x_norm, k_string, damping, m_racket) ==
  /\ Completes("vibration_score", 0,
               [x_norm |-> x_norm, k_string |-> k_string, damping |-> damping,
                m_racket |-> m_racket], <<>>,
               Return(ndarray("vib_score", [i \in 1..Len(damping) |->
                                             vibration_score(x_norm, k_string,
                                                             damping[i], m_racket)]),
                      NoFrame, np_random_state))
  /\ NoMerge

EffectiveMassAtImpact(m_racket, x_norm) ==
  /\ Completes("effective_mass_at_impact", 0,
               [m_racket |-> m_racket, x_norm |-> x_norm], <<>>,
               Return(ndarray("m_eff", [i \in 1..Len(x_norm) |->
                                         effective_mass_at_impact(m_racket, x_norm[i])]),
                      NoFrame, np_random_state))
  /\ NoMerge

\* a call is made on arguments of its own: nothing is carried over from
\* another call
FreshCall == last = NoCall /\ frames = <<>>

CallsExitSpeed ==
  /\ FreshCall
  /\ \E v_in \in SpeedsIn, m_eff \in EffectiveMasses, m_ball \in BallMasses,
        e \in Restitutions :
       ExitSpeed(v_in, m_eff, m_ball, e)

CallsCor ==
  /\ FreshCall
  /\ \E k_string \in Pairs(Stiffnesses), e_base \in BaseRestitutions :
       CorFromStringStiffness(k_string, e_base)

CallsVibrationScore ==
  /\ FreshCall
  /\ \E x_norm \in InnerLocations, k_string \in Stiffnesses,
        damping \in Pairs(Dampings), m_racket \in RacketMasses :
       VibrationScore(x_norm, k_string, damping, m_racket)

CallsEffectiveMass ==
  /\ FreshCall
  /\ \E m_racket \in RacketMasses \cup {1}, x_norm \in Pairs(Locations) :
       EffectiveMassAtImpact(m_racket, x_norm)

NextPhysics ==
  CallsExitSpeed \/ CallsCor \/ CallsVibrationScore \/ CallsEffectiveMass

SpecPhysics == Init /\ [][NextPhysics]_vars

-----------------------------------------------------------------------------
(* Properties *)

IsOp(i, op) == prov[i].op = op

\* two returned calls of the same operation on equal tables with equal arguments
SameCall(i, j, op) ==
  /\ IsOp(i, op) /\ IsOp(j, op)
  /\ frames[prov[i].src] = frames[prov[j].src]
  /\ prov[i].args = prov[j].args

PureColumns == {"e", "m_eff", "v_exit", "vib_score"}

\* C1 as stated: two calls of run_simulation with equal arguments return
\* tables that are equal in every column.
C1_EqualCallsEqualTables ==
  \A i, j \in 1..Len(frames) :
    SameCall(i, j, "run_simulation") => frames[i] = frames[j]

\* C1 amended: two calls of run_simulation with equal arguments return tables
\* with the same rows and columns, equal in every column except shock_proxy;
\* in shock_proxy each row is the same function of the row plus the noise the
\* call drew from the process-wide generator.
C1_EqualUpToNoise ==
  \A i, j \in 1..Len(frames) :
    SameCall(i, j, "run_simulation") =>
      /\ frames[i].index = frames[j].index
      /\ Columns(frames[i]) = Columns(frames[j])
      /\ \A k \in 1..Len(frames[i].cols) :
           frames[i].cols[k][1] # "shock_proxy"
             => frames[i].cols[k] = frames[j].cols[k]
      /\ \A r \in 1..NRows(frames[i]) :
           Col(frames[i], "shock_proxy")[r] - prov[i].noise[r]
             = Col(frames[j], "shock_proxy")[r] - prov[j].noise[r]

\* two equal calls on a non-empty table whose results differ
C1_Witness ==
  \E i, j \in 1..Len(frames) :
    /\ SameCall(i, j, "run_simulation")
    /\ NRows(frames[i]) >= 1
    /\ Col(frames[i], "shock_proxy") # Col(frames[j], "shock_proxy")
    /\ \A c \in PureColumns : Col(frames[i], c) = Col(frames[j], c)

\* C2: a call leaves every table the caller retains as it was: same columns,
\* same rows in the same order, same values.
C2_RetainedTablesUnchanged ==
  [][\A i \in 1..Len(frames) :
       i <= Len(frames') /\ frames'[i] = frames[i]]_vars

\* a hand-built table evaluated and the result scored: the score column is
\* rewritten in the scorer's result only, and the first table has gained none
\* of the evaluator's columns
C2_Witness ==
  /\ Len(frames) = 3
  /\ IsOp(2, "run_simulation") /\ prov[2].src = 1
  /\ IsOp(3, "compute_sweet_score") /\ prov[3].src = 2
  /\ NRows(frames[1]) >= 1
  /\ ~HasCol(frames[1], "e") /\ ~HasCol(frames[1], "shock_proxy")
  /\ Col(frames[2], "sweet_score") = Col(frames[1], "sweet_score")
  /\ Col(frames[3], "sweet_score") # Col(frames[2], "sweet_score")

Required(op) ==
  CASE op = "run_simulation"      -> {"m_racket", "k_string", "damping", "x_norm"}
    [] op = "compute_sweet_score" -> {"v_exit", "shock_proxy"}
    [] op = "top_designs"         -> {"sweet_score"}
    [] OTHER                      -> {}

\* C3: a call on a table that lacks a required column raises and returns no
\* table: every table a stage returned came from a table that had all the
\* stage's required columns, and a call that raised raised KeyError on a
\* required column its table lacks, returned nothing and left the caller's
\* tables alone.
C3_MissingColumnRaises ==
  /\ \A i \in 1..Len(frames) :
       \A c \in Required(prov[i].op) : HasCol(frames[prov[i].src], c)
  /\ last # NoCall =>
       /\ last.raised = "KeyError"
       /\ last.key \in Required(last.op)
       /\ ~HasCol(frames[last.src], last.key)
       /\ last.out = 0
       /\ Len(prov) = Len(frames)

\* run_simulation has just raised on a table that lacks only damping
C3_Witness ==
  /\ last.op = "run_simulation"
  /\ last.raised = "KeyError"
  /\ last.key = "damping"
  /\ \A c \in {"m_racket", "k_string", "x_norm"} : HasCol(frames[last.src], c)

\* C4: two calls of sample_design_space with identical (n, bounds, seed)
\* return identical tables, whatever calls happened between them.
C4_SampleDeterministic ==
  \A i, j \in 1..Len(frames) :
    (IsOp(i, "sample_design_space") /\ IsOp(j, "sample_design_space")
     /\ prov[i].args = prov[j].args)
      => frames[i] = frames[j]

\* two equal sampler calls with an evaluation, which draws from the
\* process-wide generator, between them
C4_Witness ==
  /\ Len(frames) = 3
  /\ IsOp(1, "sample_design_space") /\ IsOp(3, "sample_design_space")
  /\ prov[1].args = prov[3].args
  /\ prov[1].args.n >= 1
  /\ IsOp(2, "run_simulation") /\ prov[2].src = 1
  /\ np_random_state # prov[2].g0

\* the variables of the effective bounds: the defaults in their order, then
\* the override's new names in the override's order
ExpectedVariables(bounds) ==
  DictKeys(DESIGN_BOUNDS)
    \o SelectSeq(DictKeys(bounds), LAMBDA v : ~DictHas(DESIGN_BOUNDS, v))

ExpectedRange(bounds, v) ==
  IF DictHas(bounds, v) THEN DictGet(bounds, v) ELSE DictGet(DESIGN_BOUNDS, v)

\* C5: sample_design_space returns exactly n rows and exactly one column per
\* variable of the effective bounds, in the bounds' order, and every value
\* lies within its variable's [lo, hi].
C5_SampleShapeAndRange ==
  \A i \in 1..Len(frames) :
    IsOp(i, "sample_design_space") =>
      LET a == prov[i].args
      IN  /\ NRows(frames[i]) = a.n
          /\ Columns(frames[i]) = ExpectedVariables(a.bounds)
          /\ \A k \in 1..Len(frames[i].cols) :
               LET v  == frames[i].cols[k][1]
                   x  == frames[i].cols[k][2]
                   lh == ExpectedRange(a.bounds, v)
               IN  /\ Len(x) = a.n
                   /\ \A r \in 1..Len(x) : lh[1] <= x[r] /\ x[r] <= lh[2]

\* a sample of MaxN rows under an override that narrows a variable and adds one
C5_Witness ==
  \E i \in 1..Len(frames) :
    /\ IsOp(i, "sample_design_space")
    /\ prov[i].args.n = MaxN
    /\ HasCol(frames[i], "grip")
    /\ Columns(frames[i])[1] = "m_racket"
    /\ \E r \in 1..MaxN : Col(frames[i], "x_norm")[r] > 40

Derived == <<"e", "m_eff", "v_exit", "vib_score", "shock_proxy">>

IsDerived(c) == \E k \in 1..Len(Derived) : Derived[k] = c

\* C6 as stated: run_simulation returns the same rows in the same order, every
\* column of the input present with unchanged values, and the five derived
\* columns present.
C6_EveryInputColumnUnchanged ==
  \A i \in 1..Len(frames) :
    IsOp(i, "run_simulation") =>
      LET in  == frames[prov[i].src]
          out == frames[i]
      IN  /\ out.index = in.index
          /\ \A k \in 1..Len(in.cols) :
               /\ HasCol(out, in.cols[k][1])
               /\ Col(out, in.cols[k][1]) = in.cols[k][2]
          /\ \A k \in 1..Len(Derived) : HasCol(out, Derived[k])

\* C6 amended: run_simulation returns the same rows in the same order; every
\* input column keeps its position, and keeps its values unless it is named
\* e, m_eff, v_exit, vib_score or shock_proxy; those five are assigned: a
\* name the input already has is overwritten where it stands, the others are
\* appended in that order.
C6_InputColumnsKeptDerivedAssigned ==
  \A i \in 1..Len(frames) :
    IsOp(i, "run_simulation") =>
      LET in  == frames[prov[i].src]
          out == frames[i]
      IN  /\ out.index = in.index
          /\ Columns(out)
               = Columns(in) \o SelectSeq(Derived, LAMBDA c : ~HasCol(in, c))
          /\ \A k \in 1..Len(in.cols) :
               ~IsDerived(in.cols[k][1]) => out.cols[k] = in.cols[k]
          /\ \A k \in 1..Len(Derived) :
               /\ HasCol(out, Derived[k])
               /\ Len(Col(out, Derived[k])) = NRows(in)

\* an evaluated table evaluated again: shock_proxy is rewritten where it
\* stands, the design columns are as they were
C6_Witness ==
  \E i \in 1..Len(frames) :
    /\ IsOp(i, "run_simulation")
    /\ NRows(frames[i]) >= 1
    /\ HasCol(frames[prov[i].src], "shock_proxy")
    /\ Col(frames[i], "shock_proxy") # Col(frames[prov[i].src], "shock_proxy")
    /\ Col(frames[i], "m_racket") = Col(frames[prov[i].src], "m_racket")
    /\ Columns(frames[i]) = Columns(frames[prov[i].src])

DesignColumns == <<"m_racket", "k_string", "damping", "x_norm">>

PipelineColumns ==
  DesignColumns \o Derived \o <<"sweet_score">>

\* frames[k] is the scorer's result on the evaluator's result on a sample
\* drawn under the default bounds
IsPipeline(k) ==
  /\ IsOp(k, "compute_sweet_score")
  /\ IsOp(prov[k].src, "run_simulation")
  /\ IsOp(prov[prov[k].src].src, "sample_design_space")
  /\ prov[prov[prov[k].src].src].args.bounds = <<>>

\* C7: sample_design_space(n), then run_simulation, then compute_sweet_score
\* yields exactly the ten pipeline columns and exactly n rows, row i holding
\* the i-th sampled design.
C7_PipelineTable ==
  \A k \in 1..Len(frames) :
    IsPipeline(k) =>
      LET sample == prov[prov[k].src].src
          n      == prov[sample].args.n
      IN  /\ Columns(frames[k]) = PipelineColumns
          /\ frames[k].index = RangeIndex(n)
          /\ \A j \in 1..Len(frames[k].cols) : Len(frames[k].cols[j][2]) = n
          /\ \A j \in 1..Len(DesignColumns) :
               Col(frames[k], DesignColumns[j])
                 = Col(frames[sample], DesignColumns[j])

\* the pipeline run on a sample of MaxN rows
C7_Witness ==
  \E k \in 1..Len(frames) :
    /\ IsPipeline(k)
    /\ NRows(frames[k]) = MaxN
    /\ MaxN >= 2

ValuesOf(x) == {x[i] : i \in 1..Len(x)}

IsMinOf(m, x) == m \in ValuesOf(x) /\ \A i \in 1..Len(x) : m <= x[i]

IsMaxOf(m, x) == m \in ValuesOf(x) /\ \A i \in 1..Len(x) : m >= x[i]

\* (x - lo) / (hi - lo + eps) in milli, eps being one step of the eps grid
Normalised(x, lo, hi) ==
  ((x - lo) * EpsInv * 1000) \div ((hi - lo) * EpsInv + eps)

\* C8: for every row, sweet_score = w_speed * v_norm - w_shock * s_norm with
\* v_norm = (v_exit - min) / (max - min + eps), s_norm likewise on
\* shock_proxy, min and max being those of the whole input batch, for any
\* weights.
C8_ScoreFormula ==
  \A k \in 1..Len(frames) :
    IsOp(k, "compute_sweet_score") =>
      LET v == Col(frames[prov[k].src], "v_exit")
          s == Col(frames[prov[k].src], "shock_proxy")
          a == prov[k].args
      IN  \A vlo, vhi \in ValuesOf(v), slo, shi \in ValuesOf(s) :
            (IsMinOf(vlo, v) /\ IsMaxOf(vhi, v)
             /\ IsMinOf(slo, s) /\ IsMaxOf(shi, s))
              => \A r \in 1..NRows(frames[k]) :
                   Col(frames[k], "sweet_score")[r]
                     = FMul(a.w_speed, Normalised(v[r], vlo, vhi))
                       - FMul(a.w_shock, Normalised(s[r], slo, shi))

\* a batch scored with weights that do not sum to 1, both columns varying,
\* the extreme of each column in a different row
C8_Witness ==
  \E k \in 1..Len(frames) :
    /\ IsOp(k, "compute_sweet_score")
    /\ prov[k].args.w_speed + prov[k].args.w_shock # 1000
    /\ NRows(frames[k]) >= 2
    /\ Col(frames[k], "v_exit")[1] < Col(frames[k], "v_exit")[2]
    /\ Col(frames[k], "shock_proxy")[1] > Col(frames[k], "shock_proxy")[2]
    /\ Col(frames[k], "sweet_score")[1] # Col(frames[k], "sweet_score")[2]

IsConstant(x) == \A i, j \in 1..Len(x) : x[i] = x[j]

\* C9: on a table that has v_exit and shock_proxy, compute_sweet_score does
\* not raise and every row's sweet_score is finite; a constant v_exit column
\* contributes 0 to every row's score, and so does a constant shock_proxy
\* column.
C9_ScoreFinite ==
  /\ last.op = "compute_sweet_score" =>
       \E c \in Required("compute_sweet_score") : ~HasCol(frames[last.src], c)
  /\ \A k \in 1..Len(frames) :
       IsOp(k, "compute_sweet_score") =>
         LET v  == Col(frames[prov[k].src], "v_exit")
             s  == Col(frames[prov[k].src], "shock_proxy")
             a  == prov[k].args
             sw == Col(frames[k], "sweet_score")
         IN  \A r \in 1..NRows(frames[k]) :
               /\ sw[r] # NonFinite
               /\ (IsConstant(v) /\ IsConstant(s)) => sw[r] = 0
               /\ IsConstant(v) =>
                    \A slo, shi \in ValuesOf(s) :
                      (IsMinOf(slo, s) /\ IsMaxOf(shi, s)) =>
                        sw[r] = 0 - FMul(a.w_shock, Normalised(s[r], slo, shi))
               /\ IsConstant(s) =>
                    \A vlo, vhi \in ValuesOf(v) :
                      (IsMinOf(vlo, v) /\ IsMaxOf(vhi, v)) =>
                        sw[r] = FMul(a.w_speed, Normalised(v[r], vlo, vhi))

\* a batch of two rows or more scored with v_exit constant and shock_proxy
\* varying
C9_Witness ==
  \E k \in 1..Len(frames) :
    /\ IsOp(k, "compute_sweet_score")
    /\ NRows(frames[k]) >= 2
    /\ IsConstant(Col(frames[k], "v_exit"))
    /\ ~IsConstant(Col(frames[k], "shock_proxy"))
    /\ ~IsConstant(Col(frames[k], "sweet_score"))

\* C10: top_designs returns k = min(n, r) rows with index 0..k-1, in
\* non-increasing sweet_score order; they are distinct rows of the input, and
\* no row left out has a higher sweet_score than a row returned.
C10_TopRows ==
  \A t \in 1..Len(frames) :
    IsOp(t, "top_designs") =>
      LET in  == frames[prov[t].src]
          out == frames[t]
          r   == NRows(in)
          k   == Min2(prov[t].args.n, r)
          sc  == Col(in, "sweet_score")
      IN  /\ NRows(out) = k
          /\ out.index = RangeIndex(k)
          /\ \A j \in 1..Len(out.cols) : Len(out.cols[j][2]) = k
          /\ \A i \in 1..(k - 1) :
               Col(out, "sweet_score")[i] >= Col(out, "sweet_score")[i + 1]
          /\ \E f \in [1..k -> 1..r] :
               /\ \A i, j \in 1..k : f[i] = f[j] => i = j
               /\ \A i \in 1..k, j \in 1..Len(out.cols) :
                    out.cols[j][2][i] = Col(in, out.cols[j][1])[f[i]]
               /\ \A q \in 1..r :
                    (\A i \in 1..k : f[i] # q) =>
                      \A i \in 1..k : sc[q] <= sc[f[i]]

\* one table ranked twice: cut to its single best row, which is not its
\* first row, and asked for more rows than it has
C10_Witness ==
  /\ Len(frames) = 3
  /\ IsOp(2, "top_designs") /\ prov[2].src = 1
  /\ IsOp(3, "top_designs") /\ prov[3].src = 1
  /\ NRows(frames[1]) >= 2
  /\ Col(frames[1], "sweet_score")[1] < Col(frames[1], "sweet_score")[2]
  /\ prov[2].args.n = 1 /\ NRows(frames[2]) = 1
  /\ prov[3].args.n > NRows(frames[1])
  /\ NRows(frames[3]) = NRows(frames[1])

\* the positions in frames[t] of the rows that agree with row q of the
\* table top_designs was called on, in every column of frames[t]
PositionsOf(t, q) ==
  LET in  == frames[prov[t].src]
      out == frames[t]
  IN  {i \in 1..NRows(out) :
         \A j \in 1..Len(out.cols) :
           out.cols[j][2][i] = Col(in, out.cols[j][1])[q]}

\* the rows of the table top_designs was called on can be told apart in the
\* columns of frames[t]
RowsDistinct(t) ==
  LET in  == frames[prov[t].src]
      out == frames[t]
  IN  \A p, q \in 1..NRows(in) :
        p # q => \E j \in 1..Len(out.cols) :
                   Col(in, out.cols[j][1])[p] # Col(in, out.cols[j][1])[q]

\* C11: top_designs breaks ties by input row order: of two rows with equal
\* sweet_score the later one is returned only if the earlier one is, and then
\* after it.
C11_TiesKeepInputOrder ==
  \A t \in 1..Len(frames) :
    (IsOp(t, "top_designs") /\ RowsDistinct(t)) =>
      LET sc == Col(frames[prov[t].src], "sweet_score")
      IN  \A p, q \in 1..Len(sc) :
            (p < q /\ sc[p] = sc[q]) =>
              \A j \in PositionsOf(t, q) : \E i \in PositionsOf(t, p) : i < j

RECURSIVE SumSeq(_)
SumSeq(x) == IF x = <<>> THEN 0 ELSE Head(x) + SumSeq(Tail(x))

\* frames[a] and frames[b] are the n best rows of one batch scored
\* speed-heavy (0.90, 0.10) and shock-heavy (0.10, 0.90)
IsWeightStudy(a, b) ==
  /\ IsOp(a, "top_designs") /\ IsOp(b, "top_designs")
  /\ prov[a].args.n = prov[b].args.n
  /\ IsOp(prov[a].src, "compute_sweet_score")
  /\ IsOp(prov[b].src, "compute_sweet_score")
  /\ frames[prov[prov[a].src].src] = frames[prov[prov[b].src].src]
  /\ prov[prov[a].src].args = [w_speed |-> 900, w_shock |-> 100]
  /\ prov[prov[b].src].args = [w_speed |-> 100, w_shock |-> 900]

\* C12: of one non-empty evaluated batch scored speed-heavy and shock-heavy,
\* the n best rows under the speed-heavy score have a mean v_exit not lower
\* than the n best rows under the shock-heavy score (both have the same
\* number of rows, so the means compare as the sums).
C12_SpeedWeightRaisesMeanExitSpeed ==
  \A a, b \in 1..Len(frames) :
    (IsWeightStudy(a, b) /\ NRows(frames[a]) >= 1) =>
      /\ NRows(frames[a]) = NRows(frames[b])
      /\ SumSeq(Col(frames[a], "v_exit")) >= SumSeq(Col(frames[b], "v_exit"))

\* a study whose cut leaves rows out and whose speed-heavy pick is strictly
\* faster than its shock-heavy pick
C12_Witness ==
  \E a, b \in 1..Len(frames) :
    /\ IsWeightStudy(a, b)
    /\ NRows(frames[a]) >= 1
    /\ NRows(frames[a]) < NRows(frames[prov[a].src])
    /\ SumSeq(Col(frames[a], "v_exit")) > SumSeq(Col(frames[b], "v_exit"))

\* the columns top_designs lists, in its order
Listed ==
  <<"sweet_score", "v_exit", "shock_proxy", "m_racket", "k_string",
    "damping", "x_norm">>

\* the listed columns that table df has, in the list's order
ListedIn(df) == SelectSeq(Listed, LAMBDA c : HasCol(df, c))

Result(i, j) == frames[i].cols[1][2][j]

\* a call of exit_speed on the domain of the claim
OnExitSpeedDomain(i) ==
  /\ IsOp(i, "exit_speed")
  /\ prov[i].args.m_eff > 0 /\ prov[i].args.m_ball > 0 /\ prov[i].args.v_in > 0
  /\ prov[i].args.e >= 0 - 1000

\* C14 as stated: for m_eff, m_ball, v_in > 0 and e >= -1, e = -1 included,
\* the exit speed is strictly positive.
C14_ExitSpeedPositiveFromMinusOne ==
  \A i \in 1..Len(frames) : OnExitSpeedDomain(i) => Result(i, 1) > 0

\* C14 amended: for m_eff, m_ball, v_in > 0 the exit speed is strictly
\* positive for every e > -1, and it is 0 at e = -1.
C14_ExitSpeedPositiveAboveMinusOne ==
  \A i \in 1..Len(frames) :
    OnExitSpeedDomain(i) =>
      /\ prov[i].args.e > 0 - 1000 => Result(i, 1) > 0
      /\ prov[i].args.e = 0 - 1000 => Result(i, 1) = 0

\* the lightest impact point and the slowest ball at e = -0.9: the ball
\* still leaves, slower than it came
C14_Witness ==
  \E i \in 1..Len(frames) :
    /\ OnExitSpeedDomain(i)
    /\ prov[i].args.e = 0 - 900
    /\ prov[i].args.m_eff < prov[i].args.m_ball
    /\ Result(i, 1) > 0
    /\ Result(i, 1) < prov[i].args.v_in

\* e_base + 0.08 * (k_string - 3000) / 1200 in milli, k_string in 100 N/m
Unclamped(k_string, e_base) == e_base + (80 * (100 * k_string - 3000)) \div 1200

\* C15: cor_from_string_stiffness lies in [0.35, 0.55]: it is
\* e_base + 0.08 * (k_string - 3000) / 1200 when that lies in the interval,
\* 0.35 when it is below and 0.55 when it is above; and it is non-decreasing
\* in k_string.
C15_CorClampedAndMonotone ==
  \A i \in 1..Len(frames) :
    IsOp(i, "cor_from_string_stiffness") =>
      LET k == prov[i].args.k_string
          b == prov[i].args.e_base
      IN  /\ \A j \in 1..Len(k) :
               /\ 350 <= Result(i, j) /\ Result(i, j) <= 550
               /\ Unclamped(k[j], b) \in 350..550
                    => Result(i, j) = Unclamped(k[j], b)
               /\ Unclamped(k[j], b) < 350 => Result(i, j) = 350
               /\ Unclamped(k[j], b) > 550 => Result(i, j) = 550
          /\ \A j1, j2 \in 1..Len(k) :
               k[j1] <= k[j2] => Result(i, j1) <= Result(i, j2)

\* one call on a stiffness inside the sampled range and on 10000 N/m: the
\* first value is strictly inside the interval, the second is held at 0.55
C15_Witness ==
  \E i \in 1..Len(frames) :
    /\ IsOp(i, "cor_from_string_stiffness")
    /\ prov[i].args.k_string = <<22, 100>>
    /\ 350 < Result(i, 1) /\ Result(i, 1) < 550
    /\ Unclamped(100, prov[i].args.e_base) > 550
    /\ Result(i, 2) = 550

\* a call of vibration_score on the domain of the claim, at two dampings
\* d1 < d2
OnDampingDomain(i) ==
  /\ IsOp(i, "vibration_score")
  /\ prov[i].args.k_string > 0 /\ prov[i].args.m_racket > 0
  /\ 0 <= prov[i].args.damping[1]
  /\ prov[i].args.damping[1] < prov[i].args.damping[2]

\* C16 as stated: for every x_norm, k_string > 0, m_racket > 0 and
\* 0 <= d1 < d2 the score at d1 is strictly greater than the score at d2,
\* and the score is never negative.
C16_StrictlyDecreasingEverywhere ==
  \A i \in 1..Len(frames) :
    OnDampingDomain(i) =>
      /\ Result(i, 1) > Result(i, 2)
      /\ Result(i, 1) >= 0 /\ Result(i, 2) >= 0

\* C16 amended: for k_string > 0, m_racket > 0 and 0 <= d1 < d2 the score at
\* d1 is not lower than the score at d2 and neither is negative; the score
\* at d1 is strictly greater away from x_norm = 0, and at x_norm = 0, where
\* no energy is injected, both scores are 0.
C16_DecreasingOffTheNode ==
  \A i \in 1..Len(frames) :
    OnDampingDomain(i) =>
      /\ Result(i, 1) >= Result(i, 2)
      /\ Result(i, 2) >= 0
      /\ prov[i].args.x_norm # 0 => Result(i, 1) > Result(i, 2)
      /\ prov[i].args.x_norm = 0 => Result(i, 1) = 0 /\ Result(i, 2) = 0

\* the case of the test: x_norm = 0.5, k_string = 3000, damping 0.01 against
\* 0.08
C16_Witness ==
  \E i \in 1..Len(frames) :
    /\ OnDampingDomain(i)
    /\ prov[i].args.x_norm = 50
    /\ prov[i].args.k_string = 30
    /\ prov[i].args.damping = <<10, 80>>
    /\ Result(i, 1) > Result(i, 2)
    /\ Result(i, 2) > 0

\* C17: for m_racket > 0 the effective mass is 0.12 * m_racket at x_norm = 0
\* and 0.35 * m_racket at x_norm = 1, and for 0 <= x1 <= x2 <= 1 the
\* effective mass at x1 is not greater than at x2.
C17_EffectiveMassEndsAndMonotone ==
  \A i \in 1..Len(frames) :
    (IsOp(i, "effective_mass_at_impact") /\ prov[i].args.m_racket > 0) =>
      LET m == prov[i].args.m_racket
          x == prov[i].args.x_norm
      IN  /\ \A j \in 1..Len(x) :
               /\ x[j] = 0 => Result(i, j) = 120 * m
               /\ x[j] = 100 => Result(i, j) = 350 * m
          /\ \A j1, j2 \in 1..Len(x) :
               (0 <= x[j1] /\ x[j1] <= x[j2] /\ x[j2] <= 100)
                 => Result(i, j1) <= Result(i, j2)

\* one call on the handle end and the tip
C17_Witness ==
  \E i \in 1..Len(frames) :
    /\ IsOp(i, "effective_mass_at_impact")
    /\ prov[i].args.m_racket = 340
    /\ prov[i].args.x_norm = <<0, 100>>
    /\ Result(i, 1) = 120 * 340
    /\ Result(i, 2) = 350 * 340

\* C18: for a non-empty batch and weights w_speed >= 0, w_shock >= 0 every
\* row's sweet_score lies in [-w_shock, w_speed]; v_norm and s_norm lie in
\* [0, 1]: where shock_proxy is constant the score is w_speed * v_norm and
\* lies in [0, w_speed], where v_exit is constant it is -w_shock * s_norm and
\* lies in [-w_shock, 0].
C18_ScoreWithinWeights ==
  \A k \in 1..Len(frames) :
    (IsOp(k, "compute_sweet_score")
     /\ prov[k].args.w_speed >= 0 /\ prov[k].args.w_shock >= 0) =>
      LET v  == Col(frames[prov[k].src], "v_exit")
          s  == Col(frames[prov[k].src], "shock_proxy")
          a  == prov[k].args
          sw == Col(frames[k], "sweet_score")
      IN  \A r \in 1..NRows(frames[k]) :
            /\ 0 - a.w_shock <= sw[r] /\ sw[r] <= a.w_speed
            /\ IsConstant(s) => 0 <= sw[r]
            /\ IsConstant(v) => sw[r] <= 0

\* a batch scored with the default weights in which one row has the highest
\* v_exit and the lowest shock_proxy and another the reverse
C18_Witness ==
  \E k \in 1..Len(frames) :
    /\ IsOp(k, "compute_sweet_score")
    /\ prov[k].args = [w_speed |-> 650, w_shock |-> 350]
    /\ \E r1, r2 \in 1..NRows(frames[k]) :
         /\ Col(frames[k], "v_exit")[r1] > Col(frames[k], "v_exit")[r2]
         /\ Col(frames[k], "shock_proxy")[r1] < Col(frames[k], "shock_proxy")[r2]
         /\ Col(frames[k], "sweet_score")[r1] > 600
         /\ Col(frames[k], "sweet_score")[r2] < 0 - 300

\* the value a call made under override uses for name: the override's if it
\* names it, the default otherwise
Effective(default, override, name) ==
  IF DictHas(override, name) THEN DictGet(override, name)
  ELSE DictGet(default, name)

\* C19: overrides apply to one call only: DESIGN_BOUNDS and DEFAULTS are at
\* every moment as the import built them; a sample has the default variables
\* and the new names of its own override, and a variable its override does
\* not name is drawn from its default range; an evaluation uses, for every
\* constant its own override does not name, the default.
C19_OverridesApplyToOneCall ==
  /\ module_DESIGN_BOUNDS = DESIGN_BOUNDS
  /\ module_DEFAULTS = DEFAULTS
  /\ \A i \in 1..Len(frames) :
       IsOp(i, "sample_design_space") =>
         LET b == prov[i].args.bounds
         IN  /\ Columns(frames[i])
                  = DictKeys(DESIGN_BOUNDS)
                      \o SelectSeq(DictKeys(b),
                                   LAMBDA v : ~DictHas(DESIGN_BOUNDS, v))
             /\ \A k \in 1..Len(DESIGN_BOUNDS) :
                  LET v  == DESIGN_BOUNDS[k][1]
                      lh == Effective(DESIGN_BOUNDS, b, v)
                      x  == Col(frames[i], v)
                  IN  \A r \in 1..Len(x) : lh[1] <= x[r] /\ x[r] <= lh[2]
  /\ \A i \in 1..Len(frames) :
       IsOp(i, "run_simulation") =>
         LET c == prov[i].args.constants
         IN  \A r \in 1..NRows(frames[i]) :
               /\ Col(frames[i], "e")[r]
                    = cor_from_string_stiffness(Col(frames[i], "k_string")[r],
                                                Effective(DEFAULTS, c, "e_base"))
               /\ Col(frames[i], "v_exit")[r]
                    = exit_speed(Effective(DEFAULTS, c, "v_in"),
                                 Col(frames[i], "m_eff")[r],
                                 Effective(DEFAULTS, c, "m_ball"),
                                 Col(frames[i], "e")[r])

\* a sample drawn under an override, evaluated under an override, and then
\* evaluated again without one: the second evaluation has the exit speeds of
\* the default incoming speed
C19_Witness ==
  /\ Len(frames) = 3
  /\ IsOp(1, "sample_design_space")
  /\ prov[1].args.bounds # <<>> /\ prov[1].args.n >= 1
  /\ IsOp(2, "run_simulation") /\ prov[2].src = 1
  /\ DictHas(prov[2].args.constants, "v_in")
  /\ IsOp(3, "run_simulation") /\ prov[3].src = 1
  /\ prov[3].args.constants = <<>>
  /\ Col(frames[3], "v_exit")[1] > Col(frames[2], "v_exit")[1]
  /\ Col(frames[1], "m_racket")[1] = 300
  /\ module_DESIGN_BOUNDS = DESIGN_BOUNDS

====
